---- MODULE Spec2Model ----
(***************************************************************************)
(* The chat-monitoring pipeline of the repository: the HTTP ingest         *)
(* function (chatIngest.js), and the Service Bus triggered worker          *)
(* (chatWorker.js) with its context retrieval, model queries, confidence   *)
(* scoring, response selection, storage and bot notification; and the      *)
(* step sequence of the provisioning worker, whose code the repository     *)
(* does not hold and of which it documents the behaviour; and the HTTP     *)
(* entry point (index.js) with the orchestrator it calls (orchestrator.js,  *)
(* rag.js, models.js, confidence.js).                                      *)
(*                                                                         *)
(* JavaScript numbers that carry a confidence are represented exactly as   *)
(* integers in millionths (0.7 is 700000): every factor of the scoring     *)
(* formula is a decimal with at most three places, so every product is an  *)
(* exact integer at that scale.  A response text is a sequence of          *)
(* characters over a word character "w" and a blank " ".                   *)
(***************************************************************************)
EXTENDS Integers, Sequences, FiniteSets, TLC

VARIABLES
    clock,          \* epoch milliseconds, what Date.now() returns
    queue,          \* chat-processing-queue: the messages published so far
    http,           \* the ingest invocations so far: request, response, time
    env,            \* process.env: which settings are configured
    pc,             \* position of the worker invocation
    message,        \* the Service Bus message handed to the worker
    deliveryCount,  \* how many times the host has delivered that message
    messageBody,    \* JSON.parse(message)
    ragContext,     \* result of retrieveRagContext
    modelIdx,       \* index in modelsToQuery of the loop of queryMultipleModels
    responses,      \* the responses array of queryMultipleModels
    bestResponse,   \* result of selectBestResponse
    finalResponse,  \* the finalResponse object of the handler
    effects,        \* outward calls the invocation has made, in order
    invocationLog,  \* warn and error entries the invocation has logged
    outcomes,       \* what the services the invocation called did, in order
    sinkHistory,    \* store and bot calls of all deliveries of the message
    args,           \* arguments of the function under test (function harness)
    result,         \* its return value, <<>> before it returns
    provPc,         \* position of the provisioning worker run
    provRequest,    \* the purchase the run provisions for
    results,        \* provisioning: the result of every step attempted so far
    provCallback,   \* provisioning: the callback payload, once sent
    entryPc,        \* index.js: position of the handler invocation
    req,            \* index.js: the request of the invocation
    contextRes,     \* index.js: context.res
    resSets,        \* index.js: how many times context.res was assigned
    orchCalls,      \* orchestrator.js: the calls runOrchestration has made
    orchSettled,    \* orchestrator.js: how those calls settled, in order
    responseA       \* orchestrator.js: the local responseA

ingestVars == <<clock, queue, http>>
workerVars == <<env, pc, message, deliveryCount, messageBody, ragContext,
                modelIdx, responses, bestResponse, finalResponse, effects,
                invocationLog, outcomes, sinkHistory>>
harnessVars == <<args, result>>
provisioningVars == <<provPc, provRequest, results, provCallback>>
entryVars == <<entryPc, req, contextRes, resSets, orchCalls, orchSettled, responseA>>
vars == <<ingestVars, workerVars, harnessVars, provisioningVars, entryVars>>

(***************************************************************************)
(* Bounds of the model.                                                    *)
(***************************************************************************)
MaxClock == 1
MaxRequests == 2
MaxDeliveryCount == 2
MaxResponses == 3

None == [kind |-> "none"]

(***************************************************************************)
(* JSON text.  JSON.stringify of an object gives a text that JSON.parse    *)
(* turns back into it; any other text makes JSON.parse throw.              *)
(***************************************************************************)
JSONstringify(v) == [kind |-> "json", value |-> v]

NotJson == [kind |-> "text", value |-> "not json"]

JSONparseThrows(text) == text.kind # "json"

JSONparse(text) == text.value

(***************************************************************************)
(* chatIngest.js                                                           *)
(***************************************************************************)
Fields == {"message", "userId", "conversationId"}

FieldValues(f) ==
    CASE f = "message" -> {"", "hello"}
      [] f = "userId" -> {"u1"}
      [] f = "conversationId" -> {"c1"}

BodiesOver(D) ==
    {b \in [D -> {"", "hello", "u1", "c1"}] : \A f \in D : b[f] \in FieldValues(f)}

Bodies == UNION {BodiesOver(D) : D \in SUBSET Fields}

\* A request whose text is no JSON, whose JSON is null, or whose JSON is an object.
Requests ==
    {[kind |-> "invalid"], [kind |-> "null"]}
        \cup {[kind |-> "object", body |-> b] : b \in Bodies}

\* body.f || dflt
OrDefault(body, f, dflt) ==
    IF f \in DOMAIN body /\ body[f] # "" THEN body[f] ELSE dflt

Pad3(t) ==
    IF t < 10 THEN "00" \o ToString(t)
    ELSE IF t < 100 THEN "0" \o ToString(t)
    ELSE ToString(t)

\* new Date(t).toISOString(), for t below one second
toISOString(t) == "1970-01-01T00:00:00." \o Pad3(t) \o "Z"

\* `${conversationId}_${Date.now()}`
MessageId(conversationId, now) == conversationId \o "_" \o ToString(now)

formattedMessage(body, now, later) ==
    LET conversationId == OrDefault(body, "conversationId", "")
    IN  [messageId |-> MessageId(conversationId, now),
         conversationId |-> conversationId,
         userId |-> OrDefault(body, "userId", "unknown"),
         userMessage |-> OrDefault(body, "message", ""),
         timestamp |-> toISOString(later),
         metadata |-> [source |-> "bot_service",
                       requiresRAG |-> TRUE,
                       requiresMultiModel |-> TRUE]]

JsonHeaders == [ContentType |-> "application/json"]

BadRequest ==
    [status |-> 400, headers |-> JsonHeaders,
     body |-> JSONstringify([error |-> "Message is required"])]

InternalServerError ==
    [status |-> 500, headers |-> JsonHeaders,
     body |-> JSONstringify([error |-> "Internal server error"])]

Accepted(messageId) ==
    [status |-> 202, headers |-> JsonHeaders,
     body |-> JSONstringify([status |-> "accepted", messageId |-> messageId])]

\* A validation that lets every message through.
InvalidInputAccepts(userMessage) == FALSE

\* !userMessage
InvalidInput(userMessage) == userMessage = ""

\* As chatIngest, with the messageId of the answer made anew from the second
\* clock reading.
chatIngestRegeneratesId(request, now, later, setThrows) ==
    IF request.kind # "object"
    THEN [response |-> InternalServerError, outputMessage |-> <<>>]
    ELSE LET body == request.body
             userMessage == OrDefault(body, "message", "")
             formatted == formattedMessage(body, now, later)
         IN  IF InvalidInput(userMessage)
             THEN [response |-> BadRequest, outputMessage |-> <<>>]
             ELSE IF setThrows
             THEN [response |-> InternalServerError, outputMessage |-> <<>>]
             ELSE [response |-> Accepted(MessageId(formatted.conversationId, later)),
                   outputMessage |-> <<JSONstringify(formatted)>>]

\* As chatIngest, with the call of extraOutputs.set outside the try: its
\* failure is not seen and the request is acknowledged.
chatIngestIgnoresSetFailure(request, now, later, setThrows) ==
    IF request.kind # "object"
    THEN [response |-> InternalServerError, outputMessage |-> <<>>]
    ELSE LET body == request.body
             userMessage == OrDefault(body, "message", "")
             formatted == formattedMessage(body, now, later)
         IN  IF InvalidInput(userMessage)
             THEN [response |-> BadRequest, outputMessage |-> <<>>]
             ELSE [response |-> Accepted(formatted.messageId),
                   outputMessage |-> IF setThrows THEN <<>>
                                     ELSE <<JSONstringify(formatted)>>]

(***************************************************************************)
(* The handler of chat-ingest: what it returns and what it sets as the     *)
(* outputMessage binding (<<>> when it sets none).  now and later are the  *)
(* two clock readings (Date.now(), new Date()); setThrows says that        *)
(* context.extraOutputs.set throws.                                        *)
(***************************************************************************)
chatIngest(request, now, later, setThrows) ==
    IF request.kind # "object"
    THEN [response |-> InternalServerError, outputMessage |-> <<>>]
    ELSE LET body == request.body
             userMessage == OrDefault(body, "message", "")
             formatted == formattedMessage(body, now, later)
         IN  IF InvalidInput(userMessage)
             THEN [response |-> BadRequest, outputMessage |-> <<>>]
             ELSE IF setThrows
             THEN [response |-> InternalServerError, outputMessage |-> <<>>]
             ELSE [response |-> Accepted(formatted.messageId),
                   outputMessage |-> <<JSONstringify(formatted)>>]

Ingest ==
    /\ Len(http) < MaxRequests
    /\ \E request \in Requests, setThrows \in BOOLEAN, later \in {clock, clock + 1} :
         LET r == chatIngest(request, clock, later, setThrows)
         IN  /\ http' = Append(http, [request |-> request,
                                      response |-> r.response,
                                      at |-> clock,
                                      setThrows |-> setThrows])
             /\ queue' = queue \o r.outputMessage
    /\ UNCHANGED <<clock, workerVars, harnessVars, provisioningVars, entryVars>>

Tick ==
    /\ clock < MaxClock
    /\ clock' = clock + 1
    /\ UNCHANGED <<queue, http, workerVars, harnessVars, provisioningVars, entryVars>>

(***************************************************************************)
(* chatWorker.js: the functions.                                           *)
(***************************************************************************)
modelsToQuery ==
    <<[name |-> "gpt-4", deployment |-> "gpt-4"],
      [name |-> "gpt-35-turbo", deployment |-> "gpt-35-turbo"]>>

\* n words separated by single blanks
Words(n) == [i \in 1..(2 * n - 1) |-> IF i % 2 = 1 THEN "w" ELSE " "]

\* 1.0, in millionths
One == 1000000

\* The mock context of retrieveRagContext; relevanceScore in hundredths.
MockRagContext ==
    [context |-> "Retrieved relevant information from knowledge base...",
     sources |-> <<"SharePoint Doc 1", "SharePoint Doc 2">>,
     relevanceScore |-> 85]

EmptyRagContext == [context |-> "", sources |-> <<>>, relevanceScore |-> 0]

\* retrieveRagContext without its catch.
retrieveRagContextRethrows(searchThrows) ==
    IF searchThrows
    THEN [threw |-> TRUE, value |-> None, warned |-> FALSE]
    ELSE [threw |-> FALSE, value |-> MockRagContext, warned |-> FALSE]

\* What retrieveRagContext returns, whether it throws, and whether it warns,
\* when the body of its try block does or does not throw.
retrieveRagContext(searchThrows) ==
    IF searchThrows
    THEN [threw |-> FALSE, value |-> EmptyRagContext, warned |-> TRUE]
    ELSE [threw |-> FALSE, value |-> MockRagContext, warned |-> FALSE]

\* response.split(/\s+/).length: one more than the number of runs of blanks
wordCount(response) ==
    Cardinality({i \in 1..Len(response) :
                    /\ response[i] = " "
                    /\ (i = 1 \/ response[i - 1] # " ")}) + 1

Min(a, b) == IF a <= b THEN a ELSE b

\* As calculateConfidenceScore, with response.length for the word count.
calculateConfidenceScoreByLength(response, ragScore, finishReason) ==
    LET completionFactor ==
            IF finishReason = "stop" THEN 10
            ELSE IF finishReason = "length" THEN 8
            ELSE 6
        lengthFactor ==
            IF Len(response) >= 20 /\ Len(response) <= 200 THEN 10
            ELSE IF Len(response) < 20 THEN 8
            ELSE 9
    IN  Min(7 * (700 + 3 * ragScore) * completionFactor * lengthFactor, One)

\* As calculateConfidenceScore, with the limits of the word count exclusive.
calculateConfidenceScoreStrictLimits(response, ragScore, finishReason) ==
    LET completionFactor ==
            IF finishReason = "stop" THEN 10
            ELSE IF finishReason = "length" THEN 8
            ELSE 6
        lengthFactor ==
            IF wordCount(response) > 20 /\ wordCount(response) < 200 THEN 10
            ELSE IF wordCount(response) <= 20 THEN 8
            ELSE 9
    IN  Min(7 * (700 + 3 * ragScore) * completionFactor * lengthFactor, One)

\* ragScore in hundredths, the result in millionths: the factors are taken in
\* tenths (base, completion, length) and thousandths (0.7 + 0.3 * ragScore).
calculateConfidenceScore(response, ragScore, finishReason) ==
    LET baseConfidence == 7
        ragFactor == 700 + 3 * ragScore
        completionFactor ==
            IF finishReason = "stop" THEN 10
            ELSE IF finishReason = "length" THEN 8
            ELSE 6
        lengthFactor ==
            IF wordCount(response) >= 20 /\ wordCount(response) <= 200 THEN 10
            ELSE IF wordCount(response) < 20 THEN 8
            ELSE 9
    IN  Min(baseConfidence * ragFactor * completionFactor * lengthFactor, One)

\* [...modelResponses].sort((a, b) => b.confidence - a.confidence): the sort is
\* stable, so x goes behind every element whose confidence is not smaller.
RECURSIVE InsertDescending(_, _)
InsertDescending(x, sorted) ==
    IF sorted = <<>> THEN <<x>>
    ELSE IF Head(sorted).confidence >= x.confidence
    THEN <<Head(sorted)>> \o InsertDescending(x, Tail(sorted))
    ELSE <<x>> \o sorted

RECURSIVE SortDescending(_)
SortDescending(modelResponses) ==
    IF modelResponses = <<>> THEN <<>>
    ELSE InsertDescending(modelResponses[Len(modelResponses)],
                          SortDescending(SubSeq(modelResponses, 1,
                                                Len(modelResponses) - 1)))

\* A selection that takes the last of the elements of maximal confidence.
selectBestResponseLastOfTies(modelResponses) ==
    LET best == CHOOSE i \in 1..Len(modelResponses) :
                    \A j \in 1..Len(modelResponses) :
                        \/ modelResponses[j].confidence < modelResponses[i].confidence
                        \/ (modelResponses[j].confidence = modelResponses[i].confidence
                            /\ j <= i)
    IN  modelResponses[best]

\* A selection that takes the response of the first model queried.
selectBestResponseFirstQueried(modelResponses) == Head(modelResponses)

selectBestResponse(modelResponses) == Head(SortDescending(modelResponses))

\* ragContext.relevanceScore || 0.5: a score of 0 is falsy
RelevanceOrDefault(relevanceScore) ==
    IF relevanceScore = 0 THEN 50 ELSE relevanceScore

(***************************************************************************)
(* What client.getChatCompletions can do for one model: reject, resolve    *)
(* with a result the rest of the try block cannot read (no choice, or a    *)
(* choice without text), or resolve with a text and a finishReason.        *)
(***************************************************************************)
FinishReasons == {"stop", "length", "content_filter"}

Answers == {Words(19), Words(20)}

Completions ==
    {[kind |-> "rejects", error |-> "Request failed"],
     [kind |-> "unreadable", error |-> "Cannot read properties of undefined"]}
        \cup {[kind |-> "completes", content |-> a, finishReason |-> f,
               totalTokens |-> 120] : a \in Answers, f \in FinishReasons}

FailedResponse(model, error) ==
    [model |-> model.name,
     response |-> "Error generating response",
     confidence |-> 0,
     error |-> error]

\* The turn of the loop without its catch.
ModelResponseAbortsOnError(model, completion, rag) ==
    IF completion.kind # "completes"
    THEN [threw |-> TRUE, value |-> None]
    ELSE [threw |-> FALSE,
          value |-> [model |-> model.name,
                     response |-> completion.content,
                     confidence |->
                         calculateConfidenceScore(
                             completion.content,
                             RelevanceOrDefault(rag.relevanceScore),
                             completion.finishReason),
                     tokensUsed |-> completion.totalTokens]]

\* One turn of the loop of queryMultipleModels: what it pushes to responses,
\* and whether the turn throws out of the loop.
ModelResponse(model, completion, rag) ==
    IF completion.kind # "completes"
    THEN [threw |-> FALSE, value |-> FailedResponse(model, completion.error)]
    ELSE [threw |-> FALSE,
          value |-> [model |-> model.name,
                     response |-> completion.content,
                     confidence |->
                         calculateConfidenceScore(
                             completion.content,
                             RelevanceOrDefault(rag.relevanceScore),
                             completion.finishReason),
                     tokensUsed |-> completion.totalTokens]]

\* The scores listed from the sorted copy.
allModelScoresSorted(modelResponses) ==
    [i \in 1..Len(modelResponses) |->
        [model |-> SortDescending(modelResponses)[i].model,
         confidence |-> SortDescending(modelResponses)[i].confidence]]

\* modelResponses.map(r => ({model: r.model, confidence: r.confidence}))
allModelScores(modelResponses) ==
    [i \in 1..Len(modelResponses) |->
        [model |-> modelResponses[i].model,
         confidence |-> modelResponses[i].confidence]]

\* A finalResponse that takes its confidence from the first response.
FinalResponseRescored(body, best, modelResponses, rag) ==
    [messageId |-> body.messageId,
     conversationId |-> body.conversationId,
     response |-> best.response,
     confidenceScore |-> modelResponses[1].confidence,
     selectedModel |-> best.model,
     allModelScores |-> allModelScores(modelResponses),
     ragSources |-> rag.sources,
     timestamp |-> body.timestamp]

\* The finalResponse object of the handler.
FinalResponse(body, best, modelResponses, rag) ==
    [messageId |-> body.messageId,
     conversationId |-> body.conversationId,
     response |-> best.response,
     confidenceScore |-> best.confidence,
     selectedModel |-> best.model,
     allModelScores |-> allModelScores(modelResponses),
     ragSources |-> rag.sources,
     timestamp |-> body.timestamp]

\* storeToDatabase without its catch.
storeToDatabaseRethrows(storeThrows) == [threw |-> storeThrows, logged |-> storeThrows]

\* storeToDatabase: whether it throws and whether it logs an error, when the
\* body of its try block does or does not throw.
storeToDatabase(storeThrows) == [threw |-> FALSE, logged |-> storeThrows]

\* sendResponseToBot without its catch.
sendResponseToBotRethrows(sendThrows) == [threw |-> sendThrows, logged |-> sendThrows]

\* sendResponseToBot with a webhook URL configured, likewise.
sendResponseToBot(sendThrows) == [threw |-> FALSE, logged |-> sendThrows]

(***************************************************************************)
(* chatWorker.js: the handler of chat-worker, one action per step between  *)
(* two awaits, and the host that delivers and settles the message.         *)
(***************************************************************************)
\* The messages chat-ingest publishes, and a text that is no JSON.
DeliverableMessages ==
    {NotJson} \cup
    {r.outputMessage[1] :
        r \in {x \in {chatIngest(q, t, t, FALSE) : q \in Requests, t \in 0..MaxClock} :
                  x.outputMessage # <<>>}}

Error(text) == [level |-> "error", text |-> text]

Warn(text) == [level |-> "warn", text |-> text]

FreshInvocation ==
    /\ messageBody' = None
    /\ ragContext' = None
    /\ modelIdx' = 0
    /\ responses' = <<>>
    /\ bestResponse' = None
    /\ finalResponse' = None
    /\ effects' = <<>>
    /\ invocationLog' = <<>>
    /\ outcomes' = <<>>

\* The host triggers the handler with a message of the queue: one that
\* chat-ingest can have published, or a text that is no JSON.
HostDeliver ==
    /\ pc = "idle"
    /\ \E m \in DeliverableMessages : message' = m
    /\ deliveryCount' = 1
    /\ pc' = "parse"
    /\ FreshInvocation
    /\ sinkHistory' = <<>>
    /\ UNCHANGED <<env, ingestVars, harnessVars, provisioningVars, entryVars>>

\* JSON.parse(message) and the reads of messageBody; the catch of the handler.
\* A handler whose catch logs the error and does not throw it on.
ParseMessageSwallowsError ==
    /\ pc = "parse"
    /\ IF JSONparseThrows(message)
       THEN /\ invocationLog' = Append(invocationLog, Error("Error in worker function"))
            /\ pc' = "completed"
            /\ UNCHANGED messageBody
       ELSE /\ messageBody' = JSONparse(message)
            /\ pc' = "rag"
            /\ UNCHANGED invocationLog
    /\ UNCHANGED <<env, message, deliveryCount, ragContext, modelIdx, responses,
                   bestResponse, finalResponse, effects, outcomes, sinkHistory, ingestVars,
                   harnessVars, provisioningVars, entryVars>>

ParseMessage ==
    /\ pc = "parse"
    /\ IF JSONparseThrows(message)
       THEN /\ invocationLog' = Append(invocationLog, Error("Error in worker function"))
            /\ pc' = "failed"
            /\ UNCHANGED messageBody
       ELSE /\ messageBody' = JSONparse(message)
            /\ pc' = "rag"
            /\ UNCHANGED invocationLog
    /\ UNCHANGED <<env, message, deliveryCount, ragContext, modelIdx, responses,
                   bestResponse, finalResponse, effects, outcomes, sinkHistory, ingestVars,
                   harnessVars, provisioningVars, entryVars>>

\* await retrieveRagContext(userMessage, context)
RetrieveRagContext ==
    /\ pc = "rag"
    /\ \E searchThrows \in BOOLEAN :
         LET r == retrieveRagContext(searchThrows)
         IN  /\ outcomes' = Append(outcomes, [op |-> "search", threw |-> searchThrows])
             /\ IF r.threw
                THEN /\ invocationLog' =
                           Append(invocationLog, Error("Error in worker function"))
                     /\ pc' = "failed"
                     /\ UNCHANGED ragContext
                ELSE /\ ragContext' = r.value
                     /\ invocationLog' =
                           IF r.warned
                           THEN Append(invocationLog, Warn("RAG retrieval failed"))
                           ELSE invocationLog
                     /\ pc' = "client"
    /\ UNCHANGED <<env, message, deliveryCount, messageBody, modelIdx, responses,
                   bestResponse, finalResponse, effects, sinkHistory, ingestVars, harnessVars, provisioningVars, entryVars>>

\* queryMultipleModels up to its loop: new AzureKeyCredential(apiKey) throws
\* when AZURE_OPENAI_KEY is not set, outside every try of the function.
CreateClient ==
    /\ pc = "client"
    /\ IF env.openAIKey
       THEN /\ responses' = <<>>
            /\ modelIdx' = 1
            /\ pc' = "request"
            /\ UNCHANGED invocationLog
       ELSE /\ invocationLog' = Append(invocationLog, Error("Error in worker function"))
            /\ pc' = "failed"
            /\ UNCHANGED <<responses, modelIdx>>
    /\ UNCHANGED <<env, message, deliveryCount, messageBody, ragContext,
                   bestResponse, finalResponse, effects, outcomes, sinkHistory, ingestVars,
                   harnessVars, provisioningVars, entryVars>>

\* client.getChatCompletions(model.deployment, ...) is called and awaited.
StartModelCall ==
    /\ pc = "request"
    /\ effects' = Append(effects, [op |-> "getChatCompletions",
                                   target |-> modelsToQuery[modelIdx].deployment])
    /\ pc' = "await"
    /\ UNCHANGED <<env, message, deliveryCount, messageBody, ragContext, modelIdx,
                   responses, bestResponse, finalResponse, invocationLog,
                   outcomes, sinkHistory, ingestVars, harnessVars, provisioningVars, entryVars>>

\* The call settles; the rest of the turn of the loop, or its catch.
\* A loop that is left as soon as one model has answered.
SettleModelCallFirstAnswerWins ==
    /\ pc = "await"
    /\ \E completion \in Completions :
         LET r == ModelResponse(modelsToQuery[modelIdx], completion, ragContext)
         IN  /\ outcomes' = Append(outcomes, [op |-> "getChatCompletions",
                                              threw |-> completion.kind = "rejects",
                                              completion |-> completion])
             /\ responses' = Append(responses, r.value)
             /\ invocationLog' =
                   IF completion.kind # "completes"
                   THEN Append(invocationLog,
                               Error("Error querying " \o modelsToQuery[modelIdx].name))
                   ELSE invocationLog
             /\ IF modelIdx < Len(modelsToQuery) /\ completion.kind # "completes"
                THEN modelIdx' = modelIdx + 1 /\ pc' = "request"
                ELSE modelIdx' = modelIdx /\ pc' = "select"
    /\ UNCHANGED <<env, message, deliveryCount, messageBody, ragContext,
                   bestResponse, finalResponse, effects, sinkHistory, ingestVars,
                   harnessVars, provisioningVars, entryVars>>

SettleModelCall ==
    /\ pc = "await"
    /\ \E completion \in Completions :
         LET r == ModelResponse(modelsToQuery[modelIdx], completion, ragContext)
         IN  /\ outcomes' = Append(outcomes, [op |-> "getChatCompletions",
                                              threw |-> completion.kind = "rejects",
                                              completion |-> completion])
             /\ IF r.threw
                THEN /\ invocationLog' =
                           Append(invocationLog, Error("Error in worker function"))
                     /\ pc' = "failed"
                     /\ UNCHANGED <<responses, modelIdx>>
                ELSE /\ responses' = Append(responses, r.value)
                     /\ invocationLog' =
                           IF completion.kind # "completes"
                           THEN Append(invocationLog,
                                       Error("Error querying "
                                                 \o modelsToQuery[modelIdx].name))
                           ELSE invocationLog
                     /\ IF modelIdx < Len(modelsToQuery)
                        THEN modelIdx' = modelIdx + 1 /\ pc' = "request"
                        ELSE modelIdx' = modelIdx /\ pc' = "select"
    /\ UNCHANGED <<env, message, deliveryCount, messageBody, ragContext,
                   bestResponse, finalResponse, effects, sinkHistory, ingestVars, harnessVars, provisioningVars, entryVars>>

\* selectBestResponse(modelResponses) and the finalResponse object.
SelectAndPrepare ==
    /\ pc = "select"
    /\ bestResponse' = selectBestResponse(responses)
    /\ finalResponse' = FinalResponse(messageBody, bestResponse', responses, ragContext)
    /\ pc' = "store"
    /\ UNCHANGED <<env, message, deliveryCount, messageBody, ragContext, modelIdx,
                   responses, effects, invocationLog, outcomes, sinkHistory, ingestVars,
                   harnessVars, provisioningVars, entryVars>>

\* await storeToDatabase(finalResponse, context): its try, or its catch.
StoreToDatabase ==
    /\ pc = "store"
    /\ \E storeThrows \in BOOLEAN :
         LET r == storeToDatabase(storeThrows)
         IN  /\ effects' = Append(effects, [op |-> "storeToDatabase",
                                            target |-> finalResponse.messageId])
             /\ outcomes' = Append(outcomes, [op |-> "store", threw |-> storeThrows])
             /\ sinkHistory' = Append(sinkHistory,
                                      [op |-> "storeToDatabase",
                                       messageId |-> finalResponse.messageId])
             /\ invocationLog' =
                   IF r.threw
                   THEN Append(invocationLog, Error("Error in worker function"))
                   ELSE IF r.logged
                   THEN Append(invocationLog, Error("Database storage failed"))
                   ELSE invocationLog
             /\ pc' = IF r.threw THEN "failed" ELSE "send"
    /\ UNCHANGED <<env, message, deliveryCount, messageBody, ragContext, modelIdx,
                   responses, bestResponse, finalResponse, ingestVars,
                   harnessVars, provisioningVars, entryVars>>

\* await sendResponseToBot(finalResponse, context)
SendResponseToBot ==
    /\ pc = "send"
    /\ IF ~env.webhookUrl
       THEN /\ invocationLog' = Append(invocationLog, Warn("No webhook URL configured"))
            /\ UNCHANGED <<effects, outcomes, sinkHistory>>
            /\ pc' = "blob"
       ELSE \E sendThrows \in BOOLEAN :
              LET r == sendResponseToBot(sendThrows)
              IN  /\ effects' =
                        Append(effects, [op |-> "sendResponseToBot",
                                         target |-> finalResponse.conversationId])
                  /\ outcomes' = Append(outcomes, [op |-> "send", threw |-> sendThrows])
                  /\ sinkHistory' = Append(sinkHistory,
                                           [op |-> "sendResponseToBot",
                                            messageId |-> finalResponse.messageId])
                  /\ invocationLog' =
                        IF r.threw
                        THEN Append(invocationLog, Error("Error in worker function"))
                        ELSE IF r.logged
                        THEN Append(invocationLog,
                                    Error("Failed to send response to bot"))
                        ELSE invocationLog
                  /\ pc' = IF r.threw THEN "failed" ELSE "blob"
    /\ UNCHANGED <<env, message, deliveryCount, messageBody, ragContext, modelIdx,
                   responses, bestResponse, finalResponse, ingestVars,
                   harnessVars, provisioningVars, entryVars>>

\* context.extraOutputs.set('outputBlob', ...) and the return of the handler.
SaveBlob ==
    /\ pc = "blob"
    /\ effects' = Append(effects, [op |-> "outputBlob",
                                   target |-> finalResponse.messageId])
    /\ pc' = "completed"
    /\ UNCHANGED <<env, message, deliveryCount, messageBody, ragContext, modelIdx,
                   responses, bestResponse, finalResponse, invocationLog, outcomes,
                   sinkHistory, ingestVars, harnessVars, provisioningVars, entryVars>>

\* The handler returned: the host completes the message.
HostComplete ==
    /\ pc = "completed"
    /\ pc' = "idle"
    /\ message' = None
    /\ deliveryCount' = 0
    /\ FreshInvocation
    /\ sinkHistory' = <<>>
    /\ UNCHANGED <<env, ingestVars, harnessVars, provisioningVars, entryVars>>

\* The handler threw: the host abandons the message and delivers it again.
HostRedeliver ==
    /\ pc = "failed"
    /\ deliveryCount < MaxDeliveryCount
    /\ deliveryCount' = deliveryCount + 1
    /\ pc' = "parse"
    /\ FreshInvocation
    /\ UNCHANGED <<env, message, sinkHistory, ingestVars, harnessVars, provisioningVars, entryVars>>

\* The handler returned, and the lock of the message ran out before the host
\* completed it: the queue delivers the message again.
HostDuplicate ==
    /\ pc = "completed"
    /\ deliveryCount < MaxDeliveryCount
    /\ deliveryCount' = deliveryCount + 1
    /\ pc' = "parse"
    /\ FreshInvocation
    /\ UNCHANGED <<env, message, sinkHistory, ingestVars, harnessVars,
                   provisioningVars, entryVars>>

\* The handler threw on the last delivery: the message is dead-lettered.
HostDeadLetter ==
    /\ pc = "failed"
    /\ deliveryCount >= MaxDeliveryCount
    /\ pc' = "idle"
    /\ message' = None
    /\ deliveryCount' = 0
    /\ FreshInvocation
    /\ sinkHistory' = <<>>
    /\ UNCHANGED <<env, ingestVars, harnessVars, provisioningVars, entryVars>>

IdleWorker ==
    /\ pc = "idle"
    /\ message = None
    /\ deliveryCount = 0
    /\ messageBody = None
    /\ ragContext = None
    /\ modelIdx = 0
    /\ responses = <<>>
    /\ bestResponse = None
    /\ finalResponse = None
    /\ effects = <<>>
    /\ invocationLog = <<>>
    /\ outcomes = <<>>
    /\ sinkHistory = <<>>

IdleHarness ==
    /\ args = None
    /\ result = <<>>

IdleEntry ==
    /\ entryPc = "idle"
    /\ req = None
    /\ contextRes = None
    /\ resSets = 0
    /\ orchCalls = <<>>
    /\ orchSettled = <<>>
    /\ responseA = None

IdleProvisioning ==
    /\ provPc = "idle"
    /\ provRequest = None
    /\ results = <<>>
    /\ provCallback = None

IdleIngest ==
    /\ clock = 0
    /\ queue = <<>>
    /\ http = <<>>

InitIngest ==
    /\ IdleIngest
    /\ env = [openAIKey |-> TRUE, webhookUrl |-> TRUE]
    /\ IdleWorker
    /\ IdleHarness
    /\ IdleProvisioning
    /\ IdleEntry

NextIngest == Ingest \/ Tick

SpecIngest == InitIngest /\ [][NextIngest]_vars

InitWorker ==
    /\ IdleIngest
    /\ env \in [openAIKey : BOOLEAN, webhookUrl : BOOLEAN]
    /\ IdleWorker
    /\ IdleHarness
    /\ IdleProvisioning
    /\ IdleEntry

NextWorker ==
    \/ HostDeliver
    \/ ParseMessage
    \/ RetrieveRagContext
    \/ CreateClient
    \/ StartModelCall
    \/ SettleModelCall
    \/ SelectAndPrepare
    \/ StoreToDatabase
    \/ SendResponseToBot
    \/ SaveBlob
    \/ HostComplete
    \/ HostRedeliver
    \/ HostDuplicate
    \/ HostDeadLetter

SpecWorker == InitWorker /\ [][NextWorker]_vars

(***************************************************************************)
(* Function harness: selectBestResponse and calculateConfidenceScore       *)
(* applied to arguments drawn from bounded sets.                           *)
(***************************************************************************)
\* The confidences the worker can give a response: 0 for a failed call, and
\* the scores of the completions with the mock context.
Confidences ==
    {0} \cup {calculateConfidenceScore(a, MockRagContext.relevanceScore, f) :
                 a \in Answers, f \in FinishReasons}

\* Sequences of one to MaxResponses responses; the model names the position.
ResponseSequences ==
    UNION {{[i \in 1..n |-> [model |-> "model-" \o ToString(i),
                             response |-> "answer " \o ToString(i),
                             confidence |-> c[i]]] : c \in [1..n -> Confidences]}
           : n \in 1..MaxResponses}

InitSelect ==
    /\ IdleIngest
    /\ env = [openAIKey |-> TRUE, webhookUrl |-> TRUE]
    /\ IdleWorker
    /\ args \in ResponseSequences
    /\ result = <<>>
    /\ IdleProvisioning
    /\ IdleEntry

ApplySelect ==
    /\ result = <<>>
    /\ result' = <<selectBestResponse(args)>>
    /\ UNCHANGED <<args, ingestVars, workerVars, provisioningVars, entryVars>>

NextSelect == ApplySelect

SpecSelect == InitSelect /\ [][NextSelect]_vars

\* Texts of 1, 19, 20, 21, 200 and 201 words, the empty text, texts whose
\* blanks come in runs, lead or trail, and one word of 20 characters.
ScoredAnswers ==
    {Words(1), Words(19), Words(20), Words(21), Words(200), Words(201),
     <<>>, <<" ", "w">>, <<"w", " ", " ", "w">>, <<"w", " ">>,
     <<" ">> \o Words(19), Words(200) \o <<" ">>, [i \in 1..20 |-> "w"]}

\* finishReason: the two the function names, and two it does not.
ScoredFinishReasons == {"stop", "length", "content_filter", "tool_calls"}

\* ragScore from 0.00 to 1.00 in hundredths
RagScores == 0..100

InitScore ==
    /\ IdleIngest
    /\ env = [openAIKey |-> TRUE, webhookUrl |-> TRUE]
    /\ IdleWorker
    /\ args \in [response : ScoredAnswers, ragScore : RagScores,
                 finishReason : ScoredFinishReasons]
    /\ result = <<>>
    /\ IdleProvisioning
    /\ IdleEntry

ApplyScore ==
    /\ result = <<>>
    /\ result' = <<calculateConfidenceScore(args.response, args.ragScore,
                                          args.finishReason)>>
    /\ UNCHANGED <<args, ingestVars, workerVars, provisioningVars, entryVars>>

NextScore == ApplyScore

SpecScore == InitScore /\ [][NextScore]_vars

(***************************************************************************)
(* The provisioning worker.  Its steps, in order: the guest invite, the    *)
(* team, the SharePoint site, the SharePoint list; then the callback.      *)
(* results maps the name of every step attempted to its outcome.           *)
(***************************************************************************)
ProvisioningSteps == <<"entraInvite", "teams", "sharepoint", "sharepointList">>

\* The purchases of the test requests.
ProvisioningRequests ==
    [purchaseId : {"TEST-123", "TEST-456"}, productSku : {"PREMIUM", "BASIC"}]

StepErrors == {"Insufficient permissions", "Request timed out"}

StepOutcomes ==
    {[success |-> TRUE]} \cup {[success |-> FALSE, error |-> e] : e \in StepErrors}

\* A worker that goes on with the site after the team was not created.
NextStepIgnoresTeamFailure(step, outcome) ==
    CASE step = "entraInvite" -> "teams"
      [] step = "teams" -> "sharepoint"
      [] step = "sharepoint" -> "sharepointList"
      [] step = "sharepointList" -> "callback"

\* Where the run goes after a step: a failed invite continues with the team,
\* a failed team skips the site and the list.
NextStep(step, outcome) ==
    CASE step = "entraInvite" -> "teams"
      [] step = "teams" -> IF outcome.success THEN "sharepoint" ELSE "callback"
      [] step = "sharepoint" -> "sharepointList"
      [] step = "sharepointList" -> "callback"

Succeeded(res, step) == step \in DOMAIN res /\ res[step].success

\* The status of the callback payload: completed with every resource
\* created, failed when the team was not created, partial otherwise.
ProvisioningStatus(res) ==
    IF \A i \in 1..Len(ProvisioningSteps) : Succeeded(res, ProvisioningSteps[i])
    THEN "completed"
    ELSE IF ~Succeeded(res, "teams") THEN "failed" ELSE "partial"

AttemptStep(step) ==
    /\ provPc = step
    /\ \E outcome \in StepOutcomes :
         /\ results' = results @@ (step :> outcome)
         /\ provPc' = NextStep(step, outcome)
    /\ UNCHANGED <<provRequest, provCallback, ingestVars, workerVars, harnessVars, entryVars>>

ProvisioningDeliver ==
    /\ provPc = "idle"
    /\ provPc' = ProvisioningSteps[1]
    /\ UNCHANGED <<provRequest, results, provCallback, ingestVars, workerVars,
                   harnessVars, entryVars>>

InviteGuest == AttemptStep("entraInvite")

CreateTeam == AttemptStep("teams")

CreateSharePointSite == AttemptStep("sharepoint")

CreateSharePointList == AttemptStep("sharepointList")

SendCallback ==
    /\ provPc = "callback"
    /\ provCallback' = [purchaseId |-> provRequest.purchaseId,
                        status |-> ProvisioningStatus(results),
                        results |-> results]
    /\ provPc' = "done"
    /\ UNCHANGED <<provRequest, results, ingestVars, workerVars, harnessVars, entryVars>>

InitProvisioning ==
    /\ IdleIngest
    /\ env = [openAIKey |-> TRUE, webhookUrl |-> TRUE]
    /\ IdleWorker
    /\ IdleHarness
    /\ provPc = "idle"
    /\ provRequest \in ProvisioningRequests
    /\ results = <<>>
    /\ provCallback = None
    /\ IdleEntry

NextProvisioning ==
    \/ ProvisioningDeliver
    \/ InviteGuest
    \/ CreateTeam
    \/ CreateSharePointSite
    \/ CreateSharePointList
    \/ SendCallback

SpecProvisioning == InitProvisioning /\ [][NextProvisioning]_vars

(***************************************************************************)
(* index.js and orchestrator.js.  A confidence_hint and the confidence of  *)
(* the result are in hundredths.                                           *)
(***************************************************************************)
\* req.body: undefined, or an object with some of message and user_id.
EntryBodies ==
    {None} \cup
    UNION {{b \in [D -> {"", "hello", "is the server up", "u1"}] :
               /\ ("message" \in D => b["message"] \in {"", "hello", "is the server up"})
               /\ ("user_id" \in D => b["user_id"] \in {"", "u1"})}
           : D \in SUBSET {"message", "user_id"}}

EntryRequests == {[body |-> b] : b \in EntryBodies}

\* req.body || {}
BodyOrEmpty(request) == IF request.body = None THEN <<>> ELSE request.body

\* !message, for the message destructured from the body
NoMessage(request) ==
    \/ "message" \notin DOMAIN BodyOrEmpty(request)
    \/ BodyOrEmpty(request)["message"] = ""

\* user_id || "anonymous"
UserIdOrAnonymous(request) ==
    IF "user_id" \in DOMAIN BodyOrEmpty(request) /\ BodyOrEmpty(request)["user_id"] # ""
    THEN BodyOrEmpty(request)["user_id"]
    ELSE "anonymous"

\* The documents of the placeholder retrieval, joined, and their sources.
retrieveContext(query) ==
    [context |-> "Azure Functions allow serverless orchestration."
                     \o "\n" \o "Azure Bot Service integrates with Speech SDK.",
     sources |-> <<"doc1", "doc2">>]

\* What client.chat.completions.create can do: reject with an error, resolve
\* with no choice (reading choices[0].message then throws a TypeError), or
\* resolve with a text.
CreateOutcomes ==
    {[kind |-> "rejects", message |-> e] : e \in {"401 Unauthorized", "Request timed out"}}
    \cup {[kind |-> "unreadable",
           message |-> "Cannot read properties of undefined (reading 'message')"]}
    \cup {[kind |-> "completes", content |-> c] : c \in {"answer one", "answer two", ""}}

\* The value callGPT4 returns for a completion.
callGPT4(completion) ==
    [model |-> "gpt-4o", text |-> completion.content, confidence_hint |-> 90]

\* The value callGPT35 returns for a completion.
callGPT35(completion) ==
    [model |-> "gpt-35-turbo", text |-> completion.content, confidence_hint |-> 70]

RECURSIVE SumOfHints(_)
SumOfHints(responseSeq) ==
    IF responseSeq = <<>> THEN 0
    ELSE Head(responseSeq).confidence_hint + SumOfHints(Tail(responseSeq))

\* Math.round(average * 100) / 100, in hundredths: the average rounded half up
computeConfidence(responseSeq) ==
    (2 * SumOfHints(responseSeq) + Len(responseSeq)) \div (2 * Len(responseSeq))

\* The object runOrchestration returns.
OrchestrationResult(ctx, a, b) ==
    [answer |-> a.text,
     confidence |-> computeConfidence(<<a, b>>),
     sources |-> ctx.sources]

\* A handler without its catch: the error leaves the handler.
catchErrorRethrows(errorMessage) == [threw |-> TRUE, response |-> <<>>]

\* The catch of the handler of index.js: the response it sets.
catchError(errorMessage) ==
    [threw |-> FALSE, response |-> <<[status |-> 500, body |-> [error |-> errorMessage]]>>]

\* What the handler does with an error that reaches its catch.
Caught(errorMessage) ==
    LET r == catchError(errorMessage)
    IN  /\ entryPc' = IF r.threw THEN "threw" ELSE "returned"
        /\ contextRes' = IF r.response = <<>> THEN contextRes ELSE r.response[1]
        /\ resSets' = resSets + Len(r.response)

\* The host invokes the handler: the body is validated, and with a message
\* runOrchestration starts and awaits rag.retrieveContext.
HandleRequest ==
    /\ entryPc = "idle"
    /\ \E request \in EntryRequests :
         /\ req' = request
         /\ IF NoMessage(request)
            THEN /\ Caught("Missing 'message' field")
                 /\ UNCHANGED orchCalls
            ELSE /\ orchCalls' = Append(orchCalls,
                                        [op |-> "retrieveContext",
                                         userMessage |-> BodyOrEmpty(request)["message"],
                                         userId |-> UserIdOrAnonymous(request)])
                 /\ entryPc' = "retrieve"
                 /\ UNCHANGED <<contextRes, resSets>>
    /\ UNCHANGED <<orchSettled, responseA, ingestVars, workerVars, harnessVars,
                   provisioningVars>>

\* The retrieval resolves; runOrchestration calls models.callGPT4.
StartGPT4 ==
    /\ entryPc = "retrieve"
    /\ orchSettled' = Append(orchSettled, [kind |-> "completes"])
    /\ orchCalls' = Append(orchCalls, [op |-> "callGPT4",
                                       userMessage |-> req.body["message"],
                                       userId |-> orchCalls[1].userId])
    /\ entryPc' = "awaitGPT4"
    /\ UNCHANGED <<req, contextRes, resSets, responseA, ingestVars, workerVars, harnessVars,
                   provisioningVars>>

\* A runOrchestration that goes on to the second model after the first failed.
SettleGPT4ContinuesOnError ==
    /\ entryPc = "awaitGPT4"
    /\ \E completion \in CreateOutcomes :
         /\ orchSettled' = Append(orchSettled, completion)
         /\ responseA' = IF completion.kind = "completes" THEN callGPT4(completion)
                         ELSE [model |-> "gpt-4o", text |-> "", confidence_hint |-> 0]
         /\ orchCalls' = Append(orchCalls, [op |-> "callGPT35",
                                            userMessage |-> req.body["message"],
                                            userId |-> orchCalls[1].userId])
         /\ entryPc' = "awaitGPT35"
         /\ UNCHANGED <<contextRes, resSets>>
    /\ UNCHANGED <<req, ingestVars, workerVars, harnessVars, provisioningVars>>

\* The call of the first model settles: its failure leaves runOrchestration
\* and reaches the catch of the handler; otherwise callGPT35 is called.
SettleGPT4 ==
    /\ entryPc = "awaitGPT4"
    /\ \E completion \in CreateOutcomes :
         /\ orchSettled' = Append(orchSettled, completion)
         /\ IF completion.kind # "completes"
            THEN /\ Caught(completion.message)
                 /\ UNCHANGED <<orchCalls, responseA>>
            ELSE /\ responseA' = callGPT4(completion)
                 /\ orchCalls' = Append(orchCalls,
                                        [op |-> "callGPT35",
                                         userMessage |-> req.body["message"],
                                         userId |-> orchCalls[1].userId])
                 /\ entryPc' = "awaitGPT35"
                 /\ UNCHANGED <<contextRes, resSets>>
    /\ UNCHANGED <<req, ingestVars, workerVars, harnessVars, provisioningVars>>

\* The call of the second model settles: its failure reaches the catch;
\* otherwise runOrchestration returns and the handler sets the 200 response.
SettleGPT35 ==
    /\ entryPc = "awaitGPT35"
    /\ \E completion \in CreateOutcomes :
         /\ orchSettled' = Append(orchSettled, completion)
         /\ IF completion.kind # "completes"
            THEN Caught(completion.message)
            ELSE /\ contextRes' = [status |-> 200,
                            body |-> OrchestrationResult(
                                         retrieveContext(req.body["message"]),
                                         responseA, callGPT35(completion))]
                 /\ resSets' = resSets + 1
                 /\ entryPc' = "returned"
    /\ UNCHANGED <<req, orchCalls, responseA, ingestVars, workerVars, harnessVars,
                   provisioningVars>>

InitEntry ==
    /\ IdleIngest
    /\ env = [openAIKey |-> TRUE, webhookUrl |-> TRUE]
    /\ IdleWorker
    /\ IdleHarness
    /\ IdleProvisioning
    /\ IdleEntry

NextEntry ==
    \/ HandleRequest
    \/ StartGPT4
    \/ SettleGPT4
    \/ SettleGPT35

SpecEntry == InitEntry /\ [][NextEntry]_vars

(***************************************************************************)
(* Properties.                                                             *)
(***************************************************************************)
IsMaximal(modelResponses, i) ==
    \A j \in 1..Len(modelResponses) :
        modelResponses[j].confidence <= modelResponses[i].confidence

\* C1: for every non-empty sequence of responses, selectBestResponse returns
\* an element of maximal confidence, and of the elements that share the
\* maximum the one that comes first in the sequence.
C1_SelectsEarliestMaximum ==
    result # <<>> =>
        \E i \in 1..Len(args) :
            /\ result[1] = args[i]
            /\ IsMaximal(args, i)
            /\ \A j \in 1..(i - 1) : args[j].confidence < args[i].confidence

\* A sequence whose maximum is shared by two elements behind a smaller one;
\* the first of the two was returned.
C1_Witness ==
    /\ result # <<>>
    /\ Len(args) = 3
    /\ args[1].confidence < args[2].confidence
    /\ args[2].confidence = args[3].confidence
    /\ result[1] = args[2]

MaxConfidence(scores) ==
    CHOOSE c \in {scores[i].confidence : i \in 1..Len(scores)} :
        \A i \in 1..Len(scores) : scores[i].confidence <= c

\* C2: in every FinalResult of the chat worker, confidenceScore is the maximum
\* of the confidences listed in allModelScores, and selectedModel and response
\* are those of a ModelResponse that has that confidence.
C2_FinalConfidenceIsMaximum ==
    finalResponse # None =>
        /\ finalResponse.confidenceScore = MaxConfidence(finalResponse.allModelScores)
        /\ \E i \in 1..Len(responses) :
              /\ responses[i].model = finalResponse.selectedModel
              /\ responses[i].response = finalResponse.response
              /\ responses[i].confidence = finalResponse.confidenceScore

\* A FinalResult whose second model scored above the first and was selected.
C2_Witness ==
    /\ finalResponse # None
    /\ finalResponse.allModelScores[1].confidence > 0
    /\ finalResponse.allModelScores[1].confidence
           < finalResponse.allModelScores[2].confidence
    /\ finalResponse.selectedModel = modelsToQuery[2].name

IngestStep == Len(http') = Len(http) + 1

LastIngest == http'[Len(http')]

MessageMissing(request) ==
    /\ request.kind = "object"
    /\ ("message" \notin DOMAIN request.body \/ request.body["message"] = "")

\* C3: an ingest request whose message field is missing or empty is answered
\* with status 400 and an error body, and the invocation places no message on
\* the queue.
C3_MissingMessageRejected ==
    [][(IngestStep /\ MessageMissing(LastIngest.request)) =>
          /\ LastIngest.response.status = 400
          /\ DOMAIN JSONparse(LastIngest.response.body) = {"error"}
          /\ queue' = queue]_vars

\* Both cases have been answered with 400: no message field, and an empty one.
C3_Witness ==
    \E i, j \in 1..Len(http) :
        /\ http[i].request.kind = "object"
        /\ "message" \notin DOMAIN http[i].request.body
        /\ http[i].response.status = 400
        /\ http[j].request.kind = "object"
        /\ "message" \in DOMAIN http[j].request.body
        /\ http[j].request.body["message"] = ""
        /\ http[j].response.status = 400
        /\ queue = <<>>

\* C4: an ingest request answered with 202 has placed exactly one envelope on
\* the queue; the messageId of the response is the messageId of that envelope
\* and reads <conversationId>_<epoch milliseconds at ingest>.
C4_AcceptedEnqueuesOneEnvelope ==
    [][(IngestStep /\ LastIngest.response.status = 202) =>
          /\ Len(queue') = Len(queue) + 1
          /\ SubSeq(queue', 1, Len(queue)) = queue
          /\ ~JSONparseThrows(queue'[Len(queue')])
          /\ JSONparse(LastIngest.response.body).messageId
                = JSONparse(queue'[Len(queue')]).messageId
          /\ JSONparse(LastIngest.response.body).messageId
                = JSONparse(queue'[Len(queue')]).conversationId
                      \o "_" \o ToString(LastIngest.at)
          /\ JSONparse(queue'[Len(queue')]).conversationId
                = IF "conversationId" \in DOMAIN LastIngest.request.body
                  THEN LastIngest.request.body["conversationId"]
                  ELSE ""]_vars

\* A request with a conversationId has been accepted after the clock moved,
\* and its envelope is on the queue.
C4_Witness ==
    \E i \in 1..Len(http) :
        /\ http[i].response.status = 202
        /\ http[i].at > 0
        /\ "conversationId" \in DOMAIN http[i].request.body
        /\ \E k \in 1..Len(queue) :
              JSONparse(queue[k]).messageId
                  = JSONparse(http[i].response.body).messageId

\* The completions of the model calls that have settled in this invocation.
SettledCalls == SelectSeq(outcomes, LAMBDA o : o.op = "getChatCompletions")

SearchThrew == \E k \in 1..Len(outcomes) : outcomes[k].op = "search" /\ outcomes[k].threw

\* The catch of the handler has logged the error it throws on.
HandlerErrors ==
    Len(SelectSeq(invocationLog, LAMBDA e : e = Error("Error in worker function")))

InLoop == pc \in {"request", "await"}

PastLoop == pc \in {"select", "store", "send", "blob", "completed"}

\* C5: in queryMultipleModels a model whose call fails gets a ModelResponse
\* with confidence 0.0, the placeholder text and an error field; every
\* configured model is called and gets its own ModelResponse whatever the
\* other calls did; and no model call makes the function fail.
C5_ModelFailureIsolated ==
    /\ Len(responses) = Len(SettledCalls)
    /\ \A i \in 1..Len(SettledCalls) :
          /\ responses[i].model = modelsToQuery[i].name
          /\ SettledCalls[i].completion.kind # "completes" =>
                /\ responses[i].confidence = 0
                /\ responses[i].response = "Error generating response"
                /\ "error" \in DOMAIN responses[i]
          /\ SettledCalls[i].completion.kind = "completes" =>
                /\ responses[i].response = SettledCalls[i].completion.content
                /\ "error" \notin DOMAIN responses[i]
    /\ SettledCalls # <<>> => pc # "failed"
    /\ InLoop => modelIdx = Len(responses) + 1 /\ modelIdx <= Len(modelsToQuery)
    /\ PastLoop =>
          /\ Len(responses) = Len(modelsToQuery)
          /\ \A i \in 1..Len(modelsToQuery) :
                effects[i] = [op |-> "getChatCompletions",
                              target |-> modelsToQuery[i].deployment]

\* The call for the first model was rejected, the second model was called all
\* the same and answered, and the function returned both responses.
C5_Witness ==
    /\ pc = "select"
    /\ SettledCalls[1].completion.kind = "rejects"
    /\ SettledCalls[2].completion.kind = "completes"
    /\ responses[1].confidence = 0
    /\ responses[2].confidence > 0

AllModelsFailed ==
    /\ Len(SettledCalls) = Len(modelsToQuery)
    /\ \A i \in 1..Len(SettledCalls) : SettledCalls[i].completion.kind # "completes"

\* C6: when both configured models fail in a worker invocation, the
\* FinalResult has status failed, confidence 0.0 and selectedModel equal to
\* the name of the first configured model.
C6_AllFailedIsMarkedFailed ==
    (finalResponse # None /\ AllModelsFailed) =>
        /\ finalResponse.confidenceScore = 0
        /\ finalResponse.selectedModel = modelsToQuery[1].name
        /\ "status" \in DOMAIN finalResponse
        /\ finalResponse["status"] = "failed"

\* C7: an invocation of the chat worker ends with exactly one of two outcomes:
\* a FinalResult has been produced, or the handler has logged one
\* unrecoverable error; never neither, never both.
C7_OneOutcomePerInvocation ==
    /\ HandlerErrors <= 1
    /\ ~(finalResponse # None /\ HandlerErrors > 0)
    /\ pc = "completed" => (finalResponse # None /\ HandlerErrors = 0)
    /\ pc = "failed" => (finalResponse = None /\ HandlerErrors = 1)

\* An invocation that parsed its envelope and retrieved a context has ended
\* with the unrecoverable error and no FinalResult.
C7_Witness ==
    /\ pc = "failed"
    /\ ragContext # None
    /\ HandlerErrors = 1
    /\ finalResponse = None

\* C8: when the context retrieval fails, retrieveRagContext returns the
\* RagContext with empty text, no source and relevanceScore 0.0 instead of
\* failing, and the worker goes on to the model calls: the failure ends no
\* invocation.
C8_RagFailureDegrades ==
    SearchThrew =>
        /\ ragContext = [context |-> "", sources |-> <<>>, relevanceScore |-> 0]
        /\ pc # "rag"
        /\ env.openAIKey => pc # "failed"
        /\ HandlerErrors = 0 \/ ~env.openAIKey

\* The retrieval failed and the call of a model is under way.
C8_Witness ==
    /\ SearchThrew
    /\ pc = "await"
    /\ ragContext.sources = <<>>

\* C9: allModelScores of every FinalResult has one entry per configured model,
\* failed ones included, in the order the models were queried, not in the
\* order of the scores.
C9_ScoresInQueryOrder ==
    finalResponse # None =>
        /\ Len(finalResponse.allModelScores) = Len(modelsToQuery)
        /\ \A i \in 1..Len(modelsToQuery) :
              /\ finalResponse.allModelScores[i].model = modelsToQuery[i].name
              /\ finalResponse.allModelScores[i].confidence = responses[i].confidence

\* The first model failed and the second scored: the list is not in the order
\* of the scores, and holds the failed model.
C9_Witness ==
    /\ finalResponse # None
    /\ SettledCalls[1].completion.kind # "completes"
    /\ finalResponse.allModelScores[1].confidence = 0
    /\ finalResponse.allModelScores[2].confidence > 0

\* C10: for every ragScore in [0,1], every finishReason and every response,
\* the score of calculateConfidenceScore lies in [0,1], and it depends on the
\* response through its word count only: it is the score of any text of as
\* many words.
C10_ScoreInUnitIntervalByWordCount ==
    result # <<>> =>
        /\ 0 <= result[1]
        /\ result[1] <= One
        /\ result[1] = calculateConfidenceScore(Words(wordCount(args.response)),
                                                args.ragScore, args.finishReason)

\* A text that is not the plain text of its word count has been scored, at
\* the largest ragScore, and got a score above 0.
C10_Witness ==
    /\ result # <<>>
    /\ args.response = <<"w", " ", " ", "w">>
    /\ args.ragScore = 100
    /\ args.finishReason = "stop"
    /\ result[1] > 0

\* The factors of the formula, in tenths.
CompletionFactorOf(finishReason) ==
    CASE finishReason = "stop" -> 10
      [] finishReason = "length" -> 8
      [] OTHER -> 6

LengthFactorOf(words) ==
    CASE words >= 20 /\ words <= 200 -> 10
      [] words <= 19 -> 8
      [] words >= 201 -> 9

\* C11: for every input calculateConfidenceScore returns
\* min(1, 0.7 * (0.7 + 0.3 * ragScore) * completionFactor * lengthFactor), with
\* completionFactor 1.0 for stop, 0.8 for length and 0.6 otherwise, and
\* lengthFactor 1.0 for 20 to 200 words, 0.8 for 19 or fewer, 0.9 for 201 or more.
C11_ScoreFormula ==
    result # <<>> =>
        result[1] = Min(One, 7 * (700 + 3 * args.ragScore)
                                * CompletionFactorOf(args.finishReason)
                                * LengthFactorOf(wordCount(args.response)))

\* A text of exactly 200 words, cut off by the token limit, has been scored
\* with the factors 0.8 and 1.0.
C11_Witness ==
    /\ result # <<>>
    /\ args.response = Words(200)
    /\ args.finishReason = "length"
    /\ args.ragScore = 50
    /\ result[1] = 7 * 850 * 8 * 10

\* The invocation got as far as setting the outputMessage binding, and that
\* call failed.
EnqueueFailed(h) ==
    /\ h.request.kind = "object"
    /\ ~MessageMissing(h.request)
    /\ h.setThrows

\* C12: when placing the envelope on the queue fails, the ingest request is
\* answered with status 500 and an error body, never with 202 accepted.
C12_EnqueueFailureIs500 ==
    \A i \in 1..Len(http) :
        EnqueueFailed(http[i]) =>
            /\ http[i].response.status = 500
            /\ http[i].response.status # 202
            /\ DOMAIN JSONparse(http[i].response.body) = {"error"}

\* A request with a message failed to be queued, was answered with 500, and
\* nothing is on the queue.
C12_Witness ==
    /\ Len(http) = 1
    /\ EnqueueFailed(http[1])
    /\ http[1].response.status = 500
    /\ queue = <<>>

AcceptedRequests == {i \in 1..Len(http) : http[i].response.status = 202}

AcceptedId(i) == JSONparse(http[i].response.body)["messageId"]

\* C13: any two accepted ingest requests get distinct messageIds, also when
\* they carry the same conversationId, or none, and arrive in the same
\* millisecond.
C13_AcceptedIdsDistinct ==
    \A i, j \in AcceptedRequests : i # j => AcceptedId(i) # AcceptedId(j)

\* The body cannot be read as an object, or it has no message.
BadInput(request) == request.kind # "object" \/ MessageMissing(request)

\* C19: an ingest request with bad input, its body unparseable or without a
\* usable message, is answered with a 4xx status and never with a 5xx one.
C19_BadInputIs4xx ==
    \A i \in 1..Len(http) :
        BadInput(http[i].request) =>
            /\ http[i].response.status >= 400
            /\ http[i].response.status <= 499

Attempted(step) == step \in DOMAIN results

\* C14: in the provisioning worker a failed invite does not keep the team
\* creation from being attempted, and when the team creation fails the
\* SharePoint site and list steps are never attempted in that run.
C14_InviteContinuesTeamFailureSkips ==
    /\ (Attempted("entraInvite") /\ provPc # "teams") => Attempted("teams")
    /\ (Attempted("teams") /\ ~results["teams"].success) =>
           /\ ~Attempted("sharepoint")
           /\ ~Attempted("sharepointList")

\* The run is over: the invite failed, the team creation was attempted and
\* failed too, and nothing else was attempted.
C14_Witness ==
    /\ provPc = "done"
    /\ ~results["entraInvite"].success
    /\ ~results["teams"].success
    /\ DOMAIN results = {"entraInvite", "teams"}

SomeSucceeded ==
    \E i \in 1..Len(ProvisioningSteps) : Succeeded(results, ProvisioningSteps[i])

AllSucceeded ==
    \A i \in 1..Len(ProvisioningSteps) : Succeeded(results, ProvisioningSteps[i])

C16_AllCallsStartedBeforeAwait ==
    pc = "await" =>
        Len(SelectSeq(effects, LAMBDA e : e.op = "getChatCompletions"))
            = Len(modelsToQuery)

\* C17: when the same envelope is delivered again, the result sink and the
\* callback see its effect at most once per messageId.
C17_EffectOncePerMessageId ==
    \A i, j \in 1..Len(sinkHistory) :
        (sinkHistory[i].op = sinkHistory[j].op
            /\ sinkHistory[i].messageId = sinkHistory[j].messageId) => i = j

SuccessfulCall(i) == SettledCalls[i].completion.kind = "completes"

\* C18: the confidence of every successful response is computed with
\* rag_relevance equal to the relevanceScore of the RagContext, the 0.0 of a
\* degraded context included.
C18_ConfidenceUsesRelevanceScore ==
    \A i \in 1..Len(responses) :
        SuccessfulCall(i) =>
            responses[i].confidence =
                calculateConfidenceScore(SettledCalls[i].completion.content,
                                         ragContext.relevanceScore,
                                         SettledCalls[i].completion.finishReason)

StoreThrew == \E k \in 1..Len(outcomes) : outcomes[k].op = "store" /\ outcomes[k].threw

EffectAt(op) == {k \in 1..Len(effects) : effects[k].op = op}

Logged(entry) == \E k \in 1..Len(invocationLog) : invocationLog[k] = entry

\* C20: a failure of a write to the result sink, the database store or the
\* raw JSON snapshot, is logged and never prevents the attempt to deliver the
\* callback: after a failed store the bot is still called, and the snapshot is
\* only written after that call.
C20_SinkFailureKeepsCallback ==
    /\ StoreThrew =>
           /\ Logged(Error("Database storage failed"))
           /\ pc # "failed"
           /\ HandlerErrors = 0
           /\ (env.webhookUrl /\ pc \in {"blob", "completed"}) =>
                  EffectAt("sendResponseToBot") # {}
    /\ env.webhookUrl =>
           \A k \in EffectAt("outputBlob") :
               \E c \in EffectAt("sendResponseToBot") : c < k

\* The store failed, and the invocation called the bot and completed.
C20_Witness ==
    /\ StoreThrew
    /\ pc = "completed"
    /\ EffectAt("sendResponseToBot") # {}
    /\ HandlerErrors = 0

\* C21: in every worker invocation both writes to the result sink, the store
\* keyed by identifier and the raw JSON snapshot, are attempted before the
\* callback delivery is attempted.
C21_SinkWritesBeforeCallback ==
    \A c \in EffectAt("sendResponseToBot") :
        /\ \E k \in EffectAt("storeToDatabase") : k < c
        /\ \E k \in EffectAt("outputBlob") : k < c

SendThrew == \E k \in 1..Len(outcomes) : outcomes[k].op = "send" /\ outcomes[k].threw

\* C22: a worker invocation makes at most one callback delivery attempt; when
\* the attempt fails the failure is logged only, it is not retried, and the
\* invocation completes without an error.
C22_OneCallbackAttempt ==
    /\ Cardinality(EffectAt("sendResponseToBot")) <= 1
    /\ SendThrew =>
           /\ Logged(Error("Failed to send response to bot"))
           /\ pc \in {"blob", "completed"}
           /\ HandlerErrors = 0

\* The callback failed once, and the invocation ran to its end.
C22_Witness ==
    /\ SendThrew
    /\ pc = "completed"
    /\ Cardinality(EffectAt("sendResponseToBot")) = 1
    /\ Logged(Error("Failed to send response to bot"))

\* C23: when a worker invocation ends in an unrecoverable error, such as an
\* envelope JSON.parse rejects, the error is logged and the handler fails: the
\* message is not completed, and the host delivers it again while it has
\* deliveries left.
C23_UnrecoverableErrorFailsHandler ==
    [][/\ (pc = "parse" /\ JSONparseThrows(message)) => pc' = "failed"
       /\ pc' = "failed" => Logged(Error("Error in worker function"))'
       /\ (pc = "failed" /\ deliveryCount < MaxDeliveryCount) =>
              /\ pc' = "parse"
              /\ message' = message
              /\ deliveryCount' = deliveryCount + 1]_vars

\* The envelope that cannot be parsed has failed once and is delivered again.
C23_Witness ==
    /\ pc = "parse"
    /\ deliveryCount = 2
    /\ JSONparseThrows(message)

\* C24: the best response is selected only after the call for every
\* configured model has settled, by success or by failure.
C24_SelectionAfterAllSettled ==
    bestResponse # None =>
        /\ Len(SettledCalls) = Len(modelsToQuery)
        /\ Len(responses) = Len(modelsToQuery)
        /\ \A i \in 1..Len(modelsToQuery) :
               responses[i].model = modelsToQuery[i].name

\* A response was selected after the first call failed and the second
\* succeeded.
C24_Witness ==
    /\ bestResponse # None
    /\ ~SuccessfulCall(1)
    /\ SuccessfulCall(2)

AnyCallSucceeded == \E i \in 1..Len(SettledCalls) : SuccessfulCall(i)

\* C25: whenever at least one configured model call succeeds, the selected
\* response is a successful one with a confidence above 0.0; a response
\* carrying an error is selected only when every configured model failed.
C25_SuccessfulResponsePreferred ==
    bestResponse # None =>
        /\ AnyCallSucceeded =>
               /\ "error" \notin DOMAIN bestResponse
               /\ bestResponse.confidence > 0
        /\ "error" \in DOMAIN bestResponse => AllModelsFailed

\* The first model failed, the second answered, and the second is selected.
C25_Witness ==
    /\ bestResponse # None
    /\ ~SuccessfulCall(1)
    /\ SuccessfulCall(2)
    /\ bestResponse.model = modelsToQuery[2].name
    /\ bestResponse.confidence > 0

OrchestrationSucceeded ==
    /\ Len(orchSettled) = 3
    /\ \A k \in 1..3 : orchSettled[k].kind = "completes"

FailedCalls == {k \in 1..Len(orchSettled) : orchSettled[k].kind # "completes"}

\* C26: the handler of index.js sets exactly one response per request and
\* never throws: 200 with the orchestration result when the orchestration
\* succeeds, 500 with the message of the error otherwise; a request without
\* a message gets 500 and the orchestrator is not invoked for it.
C26_OneResponseNeverThrows ==
    /\ entryPc # "threw"
    /\ resSets <= 1
    /\ entryPc = "returned" =>
           /\ resSets = 1
           /\ IF OrchestrationSucceeded
              THEN /\ contextRes.status = 200
                   /\ contextRes.body =
                          [answer |-> orchSettled[2].content,
                           confidence |-> 80,
                           sources |-> <<"doc1", "doc2">>]
              ELSE /\ contextRes.status = 500
                   /\ DOMAIN contextRes.body = {"error"}
                   /\ \A k \in FailedCalls :
                          contextRes.body.error = orchSettled[k].message
           /\ NoMessage(req) =>
                  /\ contextRes = [status |-> 500,
                                   body |-> [error |-> "Missing 'message' field"]]
                  /\ orchCalls = <<>>
    /\ entryPc \notin {"idle", "returned"} => (resSets = 0 /\ contextRes = None)

\* A request without a body was answered with 500 and no call was made.
C26_Witness ==
    /\ entryPc = "returned"
    /\ req.body = None
    /\ contextRes.status = 500
    /\ orchCalls = <<>>

IsPrefix(s, t) == Len(s) <= Len(t) /\ \A k \in 1..Len(s) : s[k] = t[k]

CallOps == [k \in 1..Len(orchCalls) |-> orchCalls[k].op]

\* C27: runOrchestration calls the context retrieval, the first model and the
\* second model strictly in that order, each after the one before it has
\* settled, and a failure aborts it: when the first model call fails the
\* second model is never called and no answer is returned.
C27_SequentialAbortOnFailure ==
    /\ IsPrefix(CallOps, <<"retrieveContext", "callGPT4", "callGPT35">>)
    /\ Len(orchCalls) <= Len(orchSettled) + 1
    /\ \A k \in FailedCalls :
           /\ Len(orchCalls) = k
           /\ Len(orchSettled) = k
           /\ entryPc = "returned"
           /\ contextRes.status # 200
           /\ "answer" \notin DOMAIN contextRes.body

\* The first model failed: the second was never called and the request was
\* answered with the error.
C27_Witness ==
    /\ Len(orchSettled) = 2
    /\ orchSettled[2].kind = "rejects"
    /\ CallOps = <<"retrieveContext", "callGPT4">>
    /\ entryPc = "returned"
    /\ contextRes.status = 500

====
